---- MODULE Spec2Model ----
(***************************************************************************)
(* Model of the chat bot (bot.py) and of the Blogger posting bot (main.py) *)
(* of blogger_bot_project.                                                 *)
(*                                                                         *)
(* bot.py: one action per inbound update (command message, text message,   *)
(* button press).  Every outbound call a handler makes is recorded as an   *)
(* event of the invocation; a transport call (answer_callback_query,       *)
(* send_message, reply_to, send_document) may raise, which is what the     *)
(* handlers' try/except blocks are written for.  An event with ok = FALSE  *)
(* is a call that was made and raised.                                     *)
(*                                                                         *)
(* bot.register_next_step_handler adds a handler to the list of the chat;  *)
(* the next message of the chat, whatever its text, is taken from the      *)
(* ordinary handlers and given to every handler of the list, which is      *)
(* emptied first.  The adapters of utils (search_movies, get_movie_details,*)
(* get_movie_rating) return a value; search_movies returns None when the   *)
(* search failed.  process_url_upload, process_rename and                  *)
(* process_file_upload are imported by bot.py but their code is not part   *)
(* of the sources; they follow section 4.2 of the specification.           *)
(*                                                                         *)
(* main.py: one action per command or text message of a user; the calls of *)
(* the Blogger API may raise, HttpError or another exception.              *)
(*                                                                         *)
(* Spec and SpecBlog handle the updates one after the other.  SpecChats is *)
(* bot.py with two chats sending updates.  SpecThreads is the entry points *)
(* with their threads: the polling loop and the two worker threads of      *)
(* telebot, whose handler calls run step by step, and in utils.py the      *)
(* asyncio event loop that runs the coroutines of the pyrogram client.     *)
(***************************************************************************)
EXTENDS Integers, Sequences, FiniteSets, TLC

VARIABLES
    next,       \* chat -> sequence of armed next-step handlers (telebot next_step_backend)
    pend,       \* chat -> pending upload (downloaded, not yet sent)
    collide,    \* chat -> tags of the movie-selection buttons sent to the chat that
                \*         are also fixed tags (history)
    flow,       \* chat -> progress of the upload flow of the chat (history)
    flowSent,   \* chat -> display names of the files sent since the flow started (history)
    last,       \* the last processed update of bot.py and what its handlers did (history)
    svc,        \* user -> context.user_data holds a 'service' handle (main.py)
    creds,      \* the global creds of main.py
    tokenFile,  \* content of token.pickle
    posts,      \* the posts of the blog, in list order
    authed,     \* user -> a /authenticate of that user has succeeded (history)
    blast,      \* the last processed update of main.py and what its handler did (history);
                \* cred: the credential an /authenticate started with
    main,       \* the entry point that runs and the position of its main thread
    tasks,      \* the queue of telebot's worker pool: handler calls not yet started
    work,       \* worker thread -> the handler call it executes and the steps left
    upl         \* the pyrogram client: /upload messages not yet handled and the
                \* position of the upload_file coroutine

botVars == <<next, pend, collide, flow, flowSent, last>>
blogVars == <<svc, creds, tokenFile, posts, authed, blast>>
thrVars == <<main, tasks, work, upl>>
vars == <<next, pend, collide, flow, flowSent, last, svc, creds, tokenFile, posts, authed, blast,
          main, tasks, work, upl>>

----------------------------------------------------------------------------
(* Bounds *)

MaxArmed == 2       \* next-step handlers armed at once in one chat
MaxResults == 2     \* length of a movie search result
MaxFaults == 1      \* handlers of one update whose try body has a transport call raise
MaxPosts == 2       \* posts on the blog

----------------------------------------------------------------------------
(* Inputs *)

Chats == {"A", "B"}
ActiveChats == {"A"}        \* the chats that send updates under Spec

Commands == {"/start", "/help"}
Urls == {"http://x/file.zip"}
Texts == {"foo"} \cup Urls

FixedTags == {"time", "date", "movie_details", "movie_ratings", "url_upload",
              "rename", "default", "cancel"}
ArmingTags == {"movie_details", "movie_ratings", "url_upload", "rename"}

\* The movie database, in the order the search returns its matches.
Movies == << [Title |-> "Batman", Year |-> "1989"],
             [Title |-> "time", Year |-> "2021"],
             [Title |-> "Batman", Year |-> "2022"] >>
Titles == {Movies[i].Title : i \in 1..Len(Movies)}
Tags == FixedTags \cup Titles

Min(a, b) == IF a < b THEN a ELSE b

None == <<"None">>          \* search_movies returned None
SearchResults ==
    {None} \cup {<<"list", SubSeq(Movies, 1, k)>> : k \in 0..Min(MaxResults, Len(Movies))}

\* at: the transport call of a try body that raises (0: none; no try body
\* makes more than two transport calls); ef: the call of the except branch
\* raises.
Faults(ef) == [at : 0..2, ef : {ef}]

----------------------------------------------------------------------------
(* Events of a handler invocation *)

Button(label, tag) == [label |-> label, tag |-> tag]

Ev(op, what, txt, btns) == [op |-> op, what |-> what, txt |-> txt, btns |-> btns, ok |-> TRUE]

TransportOps == {"ack", "send", "reply", "send_document"}

Ack(what) == Ev("ack", what, "", <<>>)
Send(what, txt, btns) == Ev("send", what, txt, btns)
Reply(what, txt, btns) == Ev("reply", what, txt, btns)
Call(fn, arg) == Ev("call", fn, arg, <<>>)
Register(h) == Ev("register", h, "", <<>>)
Raise(what) == Ev("raise", what, "", <<>>)
SendDocument(name) == Ev("send_document", "file", name, <<>>)
StorePending(base, ext) == Ev("store_pending", base, ext, <<>>)
Clear == Ev("clear", "", "", <<>>)

NoPending == [base |-> "", ext |-> ""]

----------------------------------------------------------------------------
(* try / except of a handler *)

\* Mutant: registering a next-step handler replaces the armed ones.
Effect_replace(cs, e) ==
    CASE e.op = "register" -> [cs EXCEPT !.next = <<e.what>>]
      [] e.op = "store_pending" -> [cs EXCEPT !.pend = [base |-> e.what, ext |-> e.txt]]
      [] e.op = "clear" -> [next |-> <<>>, pend |-> NoPending]
      [] OTHER -> cs

\* The effect of one completed step on the state of the chat.
\* bot.register_next_step_handler adds the handler to the list of the chat.
Effect(cs, e) ==
    CASE e.op = "register" -> [cs EXCEPT !.next = Append(@, e.what)]
      [] e.op = "store_pending" -> [cs EXCEPT !.pend = [base |-> e.what, ext |-> e.txt]]
      [] e.op = "clear" -> [next |-> <<>>, pend |-> NoPending]
      [] OTHER -> cs

RECURSIVE Apply(_, _)
Apply(cs, evs) == IF evs = <<>> THEN cs ELSE Apply(Effect(cs, Head(evs)), Tail(evs))

\* Position of the step of the try body that raises: a step that raises by
\* itself, or the at-th transport call; 0 when the body completes.
RECURSIVE StopAt(_, _, _, _)
StopAt(steps, i, k, at) ==
    IF i > Len(steps) THEN 0
    ELSE IF steps[i].op = "raise" THEN i
    ELSE IF steps[i].op \in TransportOps
         THEN IF k + 1 = at THEN i ELSE StopAt(steps, i + 1, k + 1, at)
         ELSE StopAt(steps, i + 1, k, at)

\* try: steps  except Exception: oops.  The call in the except branch is
\* not guarded: when it raises (fault.ef) the exception leaves the handler.
RunTry(cs, steps, fault, oops) ==
    LET stop == StopAt(steps, 1, 0, fault.at)
        done == IF stop = 0 THEN steps ELSE SubSeq(steps, 1, stop - 1)
    IN  [cs |-> Apply(cs, done),
         events |-> IF stop = 0 THEN steps
                    ELSE done \o <<[steps[stop] EXCEPT !.ok = FALSE]>>
                              \o <<[oops EXCEPT !.ok = ~fault.ef]>>,
         faulted |-> stop # 0 /\ steps[stop].op # "raise",
         raised |-> stop # 0 /\ fault.ef]

----------------------------------------------------------------------------
(* bot.py: the handlers *)

OopsText == "Oops! Something went wrong. Please try again later."
WelcomeText == "Hello! I'm a helpful bot. Choose an option:"

WelcomeButtons ==
    << Button("Time", "time"), Button("Date", "date"),
       Button("Movie Details", "movie_details"),
       Button("Movie Ratings", "movie_ratings"),
       Button("URL Upload", "url_upload") >>

\* Mutant: the menu lacks the URL Upload button.
send_welcome_four == <<Reply("welcome", WelcomeText, SubSeq(WelcomeButtons, 1, 4))>>

send_welcome == <<Reply("welcome", WelcomeText, WelcomeButtons)>>

\* The prompt and the next-step handler of each arming tag.
PromptOf(tag) ==
    CASE tag = "movie_details" -> "Send me a movie title to get details"
      [] tag = "movie_ratings" -> "Send me a movie title to get ratings"
      [] tag = "url_upload" -> "Send me the URL of the file you want to upload:"
      [] tag = "rename" -> "Enter a new file name (without extension):"

\* Mutant: rename arms the URL handler.
NextStepOf_rename(tag) ==
    CASE tag = "movie_details" -> "process_movie_request"
      [] tag = "movie_ratings" -> "process_movie_rating_request"
      [] tag = "url_upload" -> "process_url_upload"
      [] tag = "rename" -> "process_url_upload"

NextStepOf(tag) ==
    CASE tag = "movie_details" -> "process_movie_request"
      [] tag = "movie_ratings" -> "process_movie_rating_request"
      [] tag = "url_upload" -> "process_url_upload"
      [] tag = "rename" -> "process_rename"

\* Mutant: cancel is not one of the finalizing tags.
FinalizeTags_default == {"default"}

FinalizeTags == {"default", "cancel"}

\* process_file_upload(message, custom_file_name): sends the pending file
\* under its original name, or under the custom name with the original
\* extension, then clears the pending upload and the state of the chat.
process_file_upload(cs, custom) ==
    IF cs.pend = NoPending THEN <<Raise("no pending upload")>>
    ELSE << SendDocument((IF custom = "" THEN cs.pend.base ELSE custom) \o cs.pend.ext),
            Clear >>

\* Mutant: the tags of the welcome menu are tested after the movie titles.
callback_query_titles(tag, cs) ==
    IF tag \in Titles
    THEN <<Ack(""), Call("get_movie_details", tag), Send("details", tag, <<>>)>>
    ELSE IF tag = "time" THEN <<Call("get_current_time", ""), Ack("Current time")>>
    ELSE IF tag = "date" THEN <<Call("get_current_date", ""), Ack("Today's date")>>
    ELSE IF tag \in ArmingTags
    THEN <<Ack(""), Send("prompt", PromptOf(tag), <<>>), Register(NextStepOf(tag))>>
    ELSE IF tag \in FinalizeTags THEN <<Ack("")>> \o process_file_upload(cs, "")
    ELSE <<Ack(""), Call("get_movie_details", tag), Send("details", tag, <<>>)>>

\* Mutant: the next step is armed before the press is acknowledged.
callback_query_armfirst(tag, cs) ==
    IF tag = "time" THEN <<Call("get_current_time", ""), Ack("Current time")>>
    ELSE IF tag = "date" THEN <<Call("get_current_date", ""), Ack("Today's date")>>
    ELSE IF tag \in ArmingTags
    THEN <<Register(NextStepOf(tag)), Ack(""), Send("prompt", PromptOf(tag), <<>>)>>
    ELSE IF tag \in FinalizeTags THEN <<Ack("")>> \o process_file_upload(cs, "")
    ELSE <<Ack(""), Call("get_movie_details", tag), Send("details", tag, <<>>)>>

callback_query(tag, cs) ==
    IF tag = "time" THEN <<Call("get_current_time", ""), Ack("Current time")>>
    ELSE IF tag = "date" THEN <<Call("get_current_date", ""), Ack("Today's date")>>
    ELSE IF tag \in ArmingTags
    THEN <<Ack(""), Send("prompt", PromptOf(tag), <<>>), Register(NextStepOf(tag))>>
    ELSE IF tag \in FinalizeTags THEN <<Ack("")>> \o process_file_upload(cs, "")
    ELSE <<Ack(""), Call("get_movie_details", tag), Send("details", tag, <<>>)>>

MenuLabel(movie) == movie.Title \o " (" \o movie.Year \o ")"

\* Mutant: asks again for a title when nothing was found.
process_movie_request_rearm(text, res) ==
    <<Call("search_movies", text)>> \o
    IF res[1] = "None"
    THEN <<Send("search_failed", "Movie search failed. Please try again later.", <<>>)>>
    ELSE LET movies == res[2] IN
         IF Len(movies) = 1
         THEN <<Call("get_movie_details", movies[1].Title),
                Send("details", movies[1].Title, <<>>)>>
         ELSE IF Len(movies) > 1
         THEN <<Send("menu", "Select the correct movie:",
                     [i \in 1..Len(movies) |->
                         Button(MenuLabel(movies[i]), movies[i].Title)])>>
         ELSE <<Send("not_found", "Movie not found.", <<>>),
                Register("process_movie_request")>>

\* Mutant: takes the first result whenever there is one.
process_movie_request_first(text, res) ==
    <<Call("search_movies", text)>> \o
    IF res[1] = "None"
    THEN <<Send("search_failed", "Movie search failed. Please try again later.", <<>>)>>
    ELSE LET movies == res[2] IN
         IF Len(movies) >= 1
         THEN <<Call("get_movie_details", movies[1].Title),
                Send("details", movies[1].Title, <<>>)>>
         ELSE <<Send("not_found", "Movie not found.", <<>>)>>

process_movie_request(text, res) ==
    <<Call("search_movies", text)>> \o
    IF res[1] = "None"
    THEN <<Send("search_failed", "Movie search failed. Please try again later.", <<>>)>>
    ELSE LET movies == res[2] IN
         IF Len(movies) = 1
         THEN <<Call("get_movie_details", movies[1].Title),
                Send("details", movies[1].Title, <<>>)>>
         ELSE IF Len(movies) > 1
         THEN <<Send("menu", "Select the correct movie:",
                     [i \in 1..Len(movies) |->
                         Button(MenuLabel(movies[i]), movies[i].Title)])>>
         ELSE <<Send("not_found", "Movie not found.", <<>>)>>

\* Mutant: the rating handler searches for the title before it looks up the rating.
process_movie_rating_request_search(text) ==
    <<Call("search_movies", text), Call("get_movie_rating", text), Send("rating", text, <<>>)>>

process_movie_rating_request(text) ==
    <<Call("get_movie_rating", text), Send("rating", text, <<>>)>>

\* The file name inferred from a URL.
InferredName(url) == [base |-> "file", ext |-> ".zip"]

UploadButtons ==
    <<Button("Default", "default"), Button("Rename", "rename"), Button("Cancel", "cancel")>>

\* process_url_upload(message): downloads the URL, keeps the file as the
\* pending upload of the chat and asks how to name it.
process_url_upload(text, dl) ==
    <<Call("download", text)>> \o
    IF dl /\ text \in Urls
    THEN <<StorePending(InferredName(text).base, InferredName(text).ext),
           Send("upload_prompt", "Choose a file name option:", UploadButtons)>>
    ELSE <<Raise("download failed")>>

\* process_rename(message): finalizes the pending upload under the new name.
process_rename(text, cs) == process_file_upload(cs, text)

HandlerBody(h, cs, text, res, dl) ==
    CASE h = "process_movie_request" -> process_movie_request(text, res)
      [] h = "process_movie_rating_request" -> process_movie_rating_request(text)
      [] h = "process_url_upload" -> process_url_upload(text, dl)
      [] h = "process_rename" -> process_rename(text, cs)

----------------------------------------------------------------------------
(* bot.py: dispatch of an update *)

\* The outcomes of try: steps except: oops, over the calls that may raise.
Outcomes(cs, steps, oops, ef) == {RunTry(cs, steps, f, oops) : f \in Faults(ef)}

Invocation(h, r) == [handler |-> h, events |-> r.events, raised |-> r.raised]

\* A message of a chat with armed next-step handlers is taken by them, in the
\* order they were armed, each in its own try/except; the list of the chat
\* has been emptied before the first one runs.
RECURSIVE Deliver(_, _, _, _, _, _, _, _)
Deliver(cs, hs, i, text, res, dl, ef, budget) ==
    IF i > Len(hs) THEN {[cs |-> cs, invs |-> <<>>]}
    ELSE UNION {
           {[cs |-> rest.cs, invs |-> <<Invocation(hs[i], r)>> \o rest.invs] :
               rest \in Deliver(r.cs, hs, i + 1, text, res, dl, ef,
                                IF r.faulted THEN budget - 1 ELSE budget)} :
           r \in {o \in Outcomes(cs, HandlerBody(hs[i], cs, text, res, dl),
                                 Send("oops", OopsText, <<>>), ef) :
                      o.faulted => budget > 0}}

\* An inbound message: armed next-step handlers come first; otherwise the
\* command handler of /start and /help; any other text has no handler.
ProcessMessage(cs, text, res, dl, ef) ==
    IF cs.next # <<>>
    THEN Deliver([cs EXCEPT !.next = <<>>], cs.next, 1, text, res, dl, ef, MaxFaults)
    ELSE IF text \in Commands
    THEN {[cs |-> r.cs, invs |-> <<Invocation("send_welcome", r)>>] :
             r \in Outcomes(cs, send_welcome, Reply("oops", OopsText, <<>>), ef)}
    ELSE {[cs |-> cs, invs |-> <<>>]}

\* A button press.
ProcessCallback(cs, tag, ef) ==
    {[cs |-> r.cs, invs |-> <<Invocation("callback_query", r)>>] :
        r \in Outcomes(cs, callback_query(tag, cs), Send("oops", OopsText, <<>>), ef)}

\* All the ways an update can go, over the calls that may raise.
MessageRuns(cs, text, res, dl) == UNION {ProcessMessage(cs, text, res, dl, ef) : ef \in BOOLEAN}
CallbackRuns(cs, tag) == UNION {ProcessCallback(cs, tag, ef) : ef \in BOOLEAN}

----------------------------------------------------------------------------
(* History of a chat *)

AllEvents(invs) ==
    LET RECURSIVE Cat(_)
        Cat(i) == IF i > Len(invs) THEN <<>> ELSE invs[i].events \o Cat(i + 1)
    IN  Cat(1)

Completed(invs) == \A i \in 1..Len(invs) : \A j \in 1..Len(invs[i].events) :
                       invs[i].events[j].ok /\ invs[i].events[j].op # "raise"

IsDoc(e) == e.op = "send_document"
IsMenu(e) == e.op = "send" /\ e.what = "menu" /\ e.ok

DocNames(invs) ==
    LET docs == SelectSeq(AllEvents(invs), IsDoc)
    IN  [i \in 1..Len(docs) |-> docs[i].txt]

MenuTagsOf(invs) ==
    LET menus == SelectSeq(AllEvents(invs), IsMenu)
    IN  UNION {{menus[i].btns[j].tag : j \in 1..Len(menus[i].btns)} : i \in 1..Len(menus)}

\* Progress of the upload flow: url_upload pressed with nothing armed, then
\* a URL whose download succeeds, then default, or rename and a name; every
\* step handled to completion.  Any other update leaves the flow.
FlowNext(f, kind, data, before, r) ==
    IF kind = "callback" /\ data = "url_upload" /\ before.next = <<>> /\ Completed(r.invs)
    THEN "armed"
    ELSE IF f = "armed" /\ kind = "message" /\ data \in Urls /\ Completed(r.invs)
    THEN "downloaded"
    ELSE IF f = "downloaded" /\ kind = "callback" /\ data = "default" /\ Completed(r.invs)
    THEN "done_default"
    ELSE IF f = "downloaded" /\ kind = "callback" /\ data = "rename" /\ Completed(r.invs)
    THEN "rename_armed"
    ELSE IF f = "rename_armed" /\ kind = "message" /\ data \in Texts /\ Completed(r.invs)
    THEN "done_rename"
    ELSE "off"

\* Mutant: the state is kept under one key for all chats.
Key_global(c) == "A"

\* The key under which the state of a chat is kept: its chat id.
Key(c) == c

\* The state an update of chat c finds.
StateOf(c) == [next |-> next[Key(c)], pend |-> pend[Key(c)]]

Record(c, kind, data, res, r) ==
    LET before == StateOf(c)
        f == FlowNext(flow[c], kind, data, before, r)
    IN  /\ next' = [next EXCEPT ![Key(c)] = r.cs.next]
        /\ pend' = [pend EXCEPT ![Key(c)] = r.cs.pend]
        /\ collide' = [collide EXCEPT ![c] = @ \cup (MenuTagsOf(r.invs) \cap FixedTags)]
        /\ flow' = [flow EXCEPT ![c] = f]
        /\ flowSent' = [flowSent EXCEPT ![c] =
                            IF f \in {"off", "armed"} THEN <<>> ELSE @ \o DocNames(r.invs)]
        /\ last' = [chat |-> c, kind |-> kind, data |-> data, res |-> res,
                    before |-> before, invs |-> r.invs]

----------------------------------------------------------------------------
(* bot.py: actions *)

Armed(c, h) == \E i \in 1..Len(StateOf(c).next) : StateOf(c).next[i] = h

\* The adapters' answers matter only to the handlers that call them.
SearchAnswers(c) == IF Armed(c, "process_movie_request") THEN SearchResults ELSE {None}
DownloadAnswers(c) == IF Armed(c, "process_url_upload") THEN BOOLEAN ELSE {FALSE}

Command(c) ==
    \E cmd \in Commands, res \in SearchAnswers(c), dl \in DownloadAnswers(c) :
      \E r \in MessageRuns(StateOf(c), cmd, res, dl) :
        /\ Record(c, "message", cmd, res, r)
        /\ UNCHANGED blogVars
        /\ UNCHANGED thrVars

TextMsg(c) ==
    \E text \in Texts, res \in SearchAnswers(c), dl \in DownloadAnswers(c) :
      \E r \in MessageRuns(StateOf(c), text, res, dl) :
        /\ Record(c, "message", text, res, r)
        /\ UNCHANGED blogVars
        /\ UNCHANGED thrVars

Callback(c) ==
    \E tag \in Tags :
      \E r \in CallbackRuns(StateOf(c), tag) :
        /\ tag \in ArmingTags => Len(StateOf(c).next) < MaxArmed
        /\ Record(c, "callback", tag, None, r)
        /\ UNCHANGED blogVars
        /\ UNCHANGED thrVars

NoUpdate == [chat |-> "A", kind |-> "none", data |-> "", res |-> None,
             before |-> [next |-> <<>>, pend |-> NoPending], invs |-> <<>>]

BotInit ==
    /\ next = [c \in Chats |-> <<>>]
    /\ pend = [c \in Chats |-> NoPending]
    /\ collide = [c \in Chats |-> {}]
    /\ flow = [c \in Chats |-> "off"]
    /\ flowSent = [c \in Chats |-> <<>>]
    /\ last = NoUpdate

\* The updates of the runs with two chats: ratings and the upload flow, with
\* no call raising.
TwoChatTags == {"movie_ratings", "url_upload", "default", "rename"}

Quiet(r) == \A i \in 1..Len(r.invs) : \A j \in 1..Len(r.invs[i].events) :
                r.invs[i].events[j].ok

\* A text message of one of two chats.
TwoChatMessage(c) ==
    \E text \in Texts, dl \in DownloadAnswers(c) :
      \E r \in ProcessMessage(StateOf(c), text, None, dl, FALSE) :
        /\ Quiet(r)
        /\ Record(c, "message", text, None, r)
        /\ UNCHANGED blogVars
        /\ UNCHANGED thrVars

\* A button press of one of two chats.
TwoChatCallback(c) ==
    \E tag \in TwoChatTags :
      \E r \in ProcessCallback(StateOf(c), tag, FALSE) :
        /\ Quiet(r)
        /\ tag \in ArmingTags => Len(StateOf(c).next) < MaxArmed
        /\ Record(c, "callback", tag, None, r)
        /\ UNCHANGED blogVars
        /\ UNCHANGED thrVars

----------------------------------------------------------------------------
(* main.py: the Blogger posting bot *)

Users == {"u1", "u2"}

\* Message texts, as sequences of characters.
PostHi == <<"/", "p", "o", "s", "t", " ", "h", "i">>
PostBlank == <<"/", "p", "o", "s", "t", " ">>
PostBare == <<"/", "p", "o", "s", "t">>
HelloWorld == <<"h", "e", "l", "l", "o", " ", "w", "o", "r", "l", "d">>
Hi == <<"h", "i">>
BlogTexts == {PostHi, PostBlank, PostBare, HelloWorld, Hi}

Old == <<"o", "l", "d">>
DraftTitle == "Draft Post"
NewTitle == "New Draft Post"
InitTitles == {DraftTitle, "Other"}

\* The blog before the bot runs: posts written by its owner.
InitialBlogs ==
    UNION {{[i \in 1..k |-> [id |-> i, title |-> t[i], content |-> Old]] :
               t \in [1..k -> InitTitles]} : k \in 0..MaxPosts}

BEv(op, what, id, body) == [op |-> op, what |-> what, id |-> id, body |-> body, ok |-> TRUE]
Api(what, id, body) == BEv("api", what, id, body)
BReply(what, id) == BEv("reply", what, id, <<>>)
Failed(e) == [e EXCEPT !.ok = FALSE]

\* update.message.text[6:]
Drop6(text) == SubSeq(text, 7, Len(text))

\* Dispatcher: CommandHandler("post") and MessageHandler(text & ~command).
IsCommand(text) == Len(text) > 0 /\ text[1] = "/"
IsPostCommand(text) ==
    /\ Len(text) >= 5
    /\ SubSeq(text, 1, 5) = PostBare
    /\ (IF Len(text) = 5 THEN TRUE ELSE text[6] = " ")
RoutedToPost(text) == IsPostCommand(text) \/ ~IsCommand(text)

\* Mutant: the loop has no break and keeps the last match.
RECURSIVE FirstDraft_last(_, _)
FirstDraft_last(ps, i) ==
    IF i > Len(ps) THEN 0
    ELSE LET later == FirstDraft_last(ps, i + 1)
         IN  IF later # 0 THEN later
             ELSE IF ps[i].title = DraftTitle THEN i ELSE 0

\* for post in posts.get('items', []): if post['title'] == "Draft Post": ... break
RECURSIVE FirstDraft(_, _)
FirstDraft(ps, i) ==
    IF i > Len(ps) THEN 0
    ELSE IF ps[i].title = DraftTitle THEN i
    ELSE FirstDraft(ps, i + 1)

NewId(ps) == Len(ps) + 1

\* Mutant: the failure is swallowed without a reply.
OnError_silent(http) == <<>>

\* What follows an API call that raised.  HttpError is caught by the except
\* clause of post_to_blogger, which replies with the error; any other
\* exception leaves the handler and the dispatcher runs error(), which
\* replies with the error.
OnError(http) == IF http THEN <<BReply("error", 0)>> ELSE <<BReply("error_handler", 0)>>

\* The try block of post_to_blogger; af is the API call of the invocation
\* that raises (0: none), http: what it raises is an HttpError.
post_body(message, ps, af, http) ==
    IF af = 1
    THEN [posts |-> ps, events |-> <<Failed(Api("list", 0, <<>>))>> \o OnError(http)]
    ELSE LET i == FirstDraft(ps, 1) IN
    IF i # 0
    THEN IF af = 2
         THEN [posts |-> ps,
               events |-> <<Api("list", 0, <<>>), Failed(Api("get", ps[i].id, <<>>))>>
                          \o OnError(http)]
         ELSE IF af = 3
         THEN [posts |-> ps,
               events |-> <<Api("list", 0, <<>>), Api("get", ps[i].id, <<>>),
                            Failed(Api("update", ps[i].id, message))>> \o OnError(http)]
         ELSE [posts |-> [ps EXCEPT ![i].content = message],
               events |-> <<Api("list", 0, <<>>), Api("get", ps[i].id, <<>>),
                            Api("update", ps[i].id, message), BReply("updated", ps[i].id)>>]
    ELSE IF af = 2
         THEN [posts |-> ps,
               events |-> <<Api("list", 0, <<>>), Failed(Api("insert", NewId(ps), message))>>
                          \o OnError(http)]
         ELSE [posts |-> <<[id |-> NewId(ps), title |-> NewTitle, content |-> message]>> \o ps,
               events |-> <<Api("list", 0, <<>>), Api("insert", NewId(ps), message),
                            BReply("created", NewId(ps))>>]

\* Mutant: the service handle is not checked.
post_to_blogger_unchecked(service, text, ps, af, http) ==
    IF Drop6(text) = <<>> THEN [posts |-> ps, events |-> <<BReply("no_content", 0)>>]
    ELSE post_body(Drop6(text), ps, af, http)

post_to_blogger(service, text, ps, af, http) ==
    IF ~service THEN [posts |-> ps, events |-> <<BReply("need_auth", 0)>>]
    ELSE IF Drop6(text) = <<>> THEN [posts |-> ps, events |-> <<BReply("no_content", 0)>>]
    ELSE post_body(Drop6(text), ps, af, http)

\* The credential authenticate_google_account works with: the content of
\* token.pickle when the file exists, otherwise the global creds.
Stored(cr, file) == IF file # "absent" THEN file ELSE cr

\* authenticate_google_account; flowOk: the interactive flow returns
\* credentials; buildOk: build() does not raise HttpError.
authenticate_google_account(cr, file, flowOk, buildOk) ==
    LET loaded == Stored(cr, file)
        ld == IF file # "absent" THEN <<BEv("load", "token.pickle", 0, <<>>)>> ELSE <<>>
        bld == IF buildOk THEN <<BEv("build", "blogger", 0, <<>>)>>
               ELSE <<Failed(BEv("build", "blogger", 0, <<>>))>>
    IN  IF loaded = "valid"
        THEN [creds |-> loaded, file |-> file, service |-> buildOk, raised |-> FALSE,
              events |-> ld \o bld]
        ELSE IF loaded = "expired_rt"
        THEN \* creds.refresh(Request()): the name Request is not defined
             [creds |-> loaded, file |-> file, service |-> FALSE, raised |-> TRUE,
              events |-> ld \o <<Failed(BEv("eval", "Request", 0, <<>>))>>]
        ELSE IF ~flowOk
        THEN [creds |-> loaded, file |-> file, service |-> FALSE, raised |-> TRUE,
              events |-> ld \o <<Failed(BEv("flow", "run_local_server", 0, <<>>))>>]
        ELSE [creds |-> "valid", file |-> "valid", service |-> buildOk, raised |-> FALSE,
              events |-> ld \o <<BEv("flow", "run_local_server", 0, <<>>),
                                 BEv("dump", "token.pickle", 0, <<>>)>> \o bld]

\* authenticate(update, context); an exception leaves the handler and the
\* dispatcher runs the error handler.
authenticate(cr, file, flowOk, buildOk) ==
    LET a == authenticate_google_account(cr, file, flowOk, buildOk)
    IN  [creds |-> a.creds, file |-> a.file, stored |-> a.service, raised |-> a.raised,
         events |-> <<BReply("redirecting", 0)>> \o a.events \o
                    (IF a.raised THEN <<BReply("error_handler", 0)>>
                     ELSE IF a.service THEN <<BReply("auth_ok", 0), BEv("store", "service", 0, <<>>)>>
                     ELSE <<BReply("auth_failed", 0)>>)]

Start(u) ==
    /\ blast' = [user |-> u, handler |-> "start", text |-> <<>>, service |-> svc[u],
                 cred |-> "", before |-> posts, events |-> <<BReply("welcome", 0)>>]
    /\ UNCHANGED <<svc, creds, tokenFile, posts, authed>>
    /\ UNCHANGED botVars
    /\ UNCHANGED thrVars

Authenticate(u) ==
    \E flowOk \in BOOLEAN, buildOk \in BOOLEAN :
        LET a == authenticate(creds, tokenFile, flowOk, buildOk)
        IN  /\ creds' = a.creds
            /\ tokenFile' = a.file
            /\ svc' = [svc EXCEPT ![u] = @ \/ a.stored]
            /\ authed' = [authed EXCEPT ![u] = @ \/ a.stored]
            /\ blast' = [user |-> u, handler |-> "authenticate", text |-> <<>>,
                         service |-> svc[u], cred |-> Stored(creds, tokenFile),
                         before |-> posts, events |-> a.events]
            /\ UNCHANGED posts
            /\ UNCHANGED botVars
            /\ UNCHANGED thrVars

Post(u) ==
    \E text \in BlogTexts, af \in 0..3, http \in BOOLEAN :
        LET r == post_to_blogger(svc[u], text, posts, af, http)
        IN  /\ RoutedToPost(text)
            /\ Len(r.posts) <= MaxPosts
            /\ posts' = r.posts
            /\ blast' = [user |-> u, handler |-> "post_to_blogger", text |-> text,
                         service |-> svc[u], cred |-> "", before |-> posts,
                         events |-> r.events]
            /\ UNCHANGED <<svc, creds, tokenFile, authed>>
            /\ UNCHANGED botVars
            /\ UNCHANGED thrVars

\* The access token runs out; it may or may not come with a refresh token.
TokenExpires ==
    /\ creds = "valid" \/ tokenFile = "valid"
    /\ \E x \in {"expired_rt", "expired"} :
          /\ creds' = IF creds = "valid" THEN x ELSE creds
          /\ tokenFile' = IF tokenFile = "valid" THEN x ELSE tokenFile
    /\ UNCHANGED <<svc, posts, authed, blast>>
    /\ UNCHANGED botVars
    /\ UNCHANGED thrVars

NoBlogUpdate == [user |-> "", handler |-> "none", text |-> <<>>, service |-> FALSE,
                 cred |-> "", before |-> <<>>, events |-> <<>>]

BlogInit ==
    /\ svc = [u \in Users |-> FALSE]
    /\ creds = "none"
    /\ tokenFile \in {"absent", "valid", "expired_rt", "expired"}
    /\ posts \in InitialBlogs
    /\ authed = [u \in Users |-> FALSE]
    /\ blast = NoBlogUpdate

----------------------------------------------------------------------------
(* The threads of the entry points *)

\* bot = telebot.TeleBot(BOT_TOKEN): threaded, with a pool of two worker
\* threads.  infinity_polling() fetches the updates in its own loop and
\* hands every handler call to the pool; it does not wait for the call to
\* return before it dispatches the next update.
Workers == {"w1", "w2"}

MaxQueue == 2       \* handler calls waiting in the queue of the pool
MaxUploads == 1     \* /upload messages waiting for the pyrogram client

EntryPoints == {"bot.py", "utils.py"}

\* The updates of the threaded runs: the buttons "Time" and "Movie Details"
\* and the title sent after the latter, for which the search finds one movie.
ThreadTags == {"time", "movie_details"}
ThreadTexts == {"foo"}
ThreadAnswers == {<<"list", SubSeq(Movies, 1, 1)>>}

Idle == [chat |-> "", handler |-> "", data |-> "", steps |-> <<>>]
Task(c, h, data) == [chat |-> c, handler |-> h, data |-> data]

Busy(w) == work[w].handler # ""
Polling == main.pc = "polling"

\* The arming presses of chat c that are dispatched and have not armed yet.
ArmingInFlight(c) ==
    LET IsArming(t) == t.chat = c /\ t.handler = "callback_query" /\ t.data \in ArmingTags
    IN  Len(SelectSeq(tasks, IsArming))
        + Cardinality({w \in Workers : IsArming(work[w]) /\
                          \E i \in 1..Len(work[w].steps) : work[w].steps[i].op = "register"})

\* asyncio.run(main()) of utils.py: await app.start() returns.
AppStart ==
    /\ main = [entry |-> "utils.py", pc |-> "start"]
    /\ main' = [main EXCEPT !.pc = "polling"]
    /\ UNCHANGED <<tasks, work, upl>>
    /\ UNCHANGED botVars
    /\ UNCHANGED blogVars

\* The polling loop receives a message of chat c: the next-step handlers of
\* the chat are taken off the list and a call of each is handed to the pool;
\* with none armed a command goes to send_welcome.
PollMessage(c) ==
    /\ Polling
    /\ \E text \in ThreadTexts :
          IF next[c] # <<>>
          THEN /\ Len(tasks) + Len(next[c]) <= MaxQueue
               /\ tasks' = tasks \o [i \in 1..Len(next[c]) |-> Task(c, next[c][i], text)]
               /\ next' = [next EXCEPT ![c] = <<>>]
          ELSE /\ text \in Commands
               /\ Len(tasks) < MaxQueue
               /\ tasks' = Append(tasks, Task(c, "send_welcome", text))
               /\ UNCHANGED next
    /\ UNCHANGED <<pend, collide, flow, flowSent, last, main, work, upl>>
    /\ UNCHANGED blogVars

\* The polling loop receives a button press of chat c.
PollCallback(c) ==
    /\ Polling
    /\ Len(tasks) < MaxQueue
    /\ \E tag \in ThreadTags :
          /\ tag \in ArmingTags => Len(next[c]) + ArmingInFlight(c) < MaxArmed
          /\ tasks' = Append(tasks, Task(c, "callback_query", tag))
    /\ UNCHANGED <<main, work, upl>>
    /\ UNCHANGED botVars
    /\ UNCHANGED blogVars

\* The steps of a handler call in which no call raises.
StepsOf(t, cs, res) ==
    CASE t.handler = "callback_query" -> callback_query(t.data, cs)
      [] t.handler = "send_welcome" -> send_welcome
      [] OTHER -> HandlerBody(t.handler, cs, t.data, res, FALSE)

\* An idle worker thread takes the next handler call of the queue.
Take(w) ==
    /\ ~Busy(w)
    /\ tasks # <<>>
    /\ LET t == Head(tasks)
           cs == [next |-> next[t.chat], pend |-> pend[t.chat]]
       IN  \E res \in ThreadAnswers :
              work' = [work EXCEPT ![w] =
                          [chat |-> t.chat, handler |-> t.handler, data |-> t.data,
                           steps |-> StepsOf(t, cs, res)]]
    /\ tasks' = Tail(tasks)
    /\ UNCHANGED <<main, upl>>
    /\ UNCHANGED botVars
    /\ UNCHANGED blogVars

\* A worker thread executes the next step of its handler call, and returns
\* to the pool after the last one.
Step(w) ==
    /\ Busy(w)
    /\ LET c == work[w].chat
           cs == Effect([next |-> next[c], pend |-> pend[c]], Head(work[w].steps))
       IN  /\ next' = [next EXCEPT ![c] = cs.next]
           /\ pend' = [pend EXCEPT ![c] = cs.pend]
    /\ work' = [work EXCEPT ![w] =
                   IF Len(@.steps) = 1 THEN Idle ELSE [@ EXCEPT !.steps = Tail(@)]]
    /\ UNCHANGED <<collide, flow, flowSent, last, main, tasks, upl>>
    /\ UNCHANGED blogVars

\* Someone sends /upload to the pyrogram client in a private chat.
UploadArrives ==
    /\ main.entry = "utils.py" /\ main.pc # "exited"
    /\ upl.waiting < MaxUploads
    /\ upl' = [upl EXCEPT !.waiting = @ + 1]
    /\ UNCHANGED <<main, tasks, work>>
    /\ UNCHANGED botVars
    /\ UNCHANGED blogVars

\* Mutant: the client runs its coroutines on a thread of its own.
LoopFree_own == main.pc \in {"start", "polling", "stop"}

\* The event loop of asyncio.run(main()) runs the coroutines of the client
\* only while main() is suspended in an await: bot.infinity_polling() is an
\* ordinary blocking call made from the coroutine, so the thread of the loop
\* is inside it until polling ends.
LoopFree == main.pc \in {"start", "stop"}

\* The event loop runs upload_file up to its next await: the message
\* "Starting file upload...", then the document.
UploadStep ==
    /\ main.entry = "utils.py"
    /\ LoopFree
    /\ \/ upl.pc = "idle" /\ upl.waiting > 0 /\
          upl' = [waiting |-> upl.waiting - 1, pc |-> "started"]
       \/ upl.pc = "started" /\ upl' = [upl EXCEPT !.pc = "idle"]
    /\ UNCHANGED <<main, tasks, work>>
    /\ UNCHANGED botVars
    /\ UNCHANGED blogVars

\* infinity_polling() returns (the process was told to stop).
PollingEnds ==
    /\ Polling
    /\ main' = [main EXCEPT !.pc = IF main.entry = "utils.py" THEN "stop" ELSE "exited"]
    /\ UNCHANGED <<tasks, work, upl>>
    /\ UNCHANGED botVars
    /\ UNCHANGED blogVars

\* await app.stop() returns.
AppStop ==
    /\ main = [entry |-> "utils.py", pc |-> "stop"]
    /\ upl.pc = "idle"
    /\ main' = [main EXCEPT !.pc = "exited"]
    /\ UNCHANGED <<tasks, work, upl>>
    /\ UNCHANGED botVars
    /\ UNCHANGED blogVars

\* No thread of the entry points is modelled: updates are handled one by one.
NoThreads ==
    /\ main = [entry |-> "bot.py", pc |-> "polling"]
    /\ tasks = <<>>
    /\ work = [w \in Workers |-> Idle]
    /\ upl = [waiting |-> 0, pc |-> "idle"]

ThreadInit ==
    /\ main \in {[entry |-> "bot.py", pc |-> "polling"], [entry |-> "utils.py", pc |-> "start"]}
    /\ tasks = <<>>
    /\ work = [w \in Workers |-> Idle]
    /\ upl = [waiting |-> 0, pc |-> "idle"]

----------------------------------------------------------------------------
(* Specifications *)

\* bot.py
Init ==
    /\ BotInit
    /\ svc = [u \in Users |-> FALSE]
    /\ creds = "none"
    /\ tokenFile = "absent"
    /\ posts = <<>>
    /\ authed = [u \in Users |-> FALSE]
    /\ blast = NoBlogUpdate
    /\ NoThreads

Next == \E c \in ActiveChats : Command(c) \/ TextMsg(c) \/ Callback(c)

Spec == Init /\ [][Next]_vars

\* main.py
InitBlog == BotInit /\ BlogInit /\ NoThreads

NextBlog == \/ \E u \in Users : Start(u) \/ Authenticate(u) \/ Post(u)
            \/ TokenExpires

SpecBlog == InitBlog /\ [][NextBlog]_vars

\* bot.py with two chats.
NextChats == \E c \in Chats : TwoChatMessage(c) \/ TwoChatCallback(c)

SpecChats == Init /\ [][NextChats]_vars

\* The entry points with their threads.  The worker threads and the event
\* loop are scheduled fairly; updates arrive, and polling ends, when the
\* environment decides.
InitThreads ==
    /\ BotInit
    /\ svc = [u \in Users |-> FALSE]
    /\ creds = "none"
    /\ tokenFile = "absent"
    /\ posts = <<>>
    /\ authed = [u \in Users |-> FALSE]
    /\ blast = NoBlogUpdate
    /\ ThreadInit

NextThreads ==
    \/ \E c \in ActiveChats : PollMessage(c) \/ PollCallback(c)
    \/ \E w \in Workers : Take(w) \/ Step(w)
    \/ AppStart \/ UploadArrives \/ UploadStep \/ PollingEnds \/ AppStop

SpecThreads ==
    /\ InitThreads
    /\ [][NextThreads]_vars
    /\ \A w \in Workers : WF_vars(Take(w)) /\ WF_vars(Step(w))
    /\ WF_vars(AppStart) /\ WF_vars(UploadStep) /\ WF_vars(AppStop)

----------------------------------------------------------------------------
(* Properties of bot.py, checked under Spec *)

HandlersOf(invs) == [i \in 1..Len(invs) |-> invs[i].handler]

Count(evs, P(_)) == Len(SelectSeq(evs, P))

IsRegister(e) == e.op = "register"
IsOops(e) == e.what = "oops"
IsDetails(e) == e.op = "send" /\ e.what = "details"
IsMenuSend(e) == e.op = "send" /\ e.what = "menu"
IsDetailsCall(e) == e.op = "call" /\ e.what = "get_movie_details"
IsAdapterCall(e) == e.op = "call"
IsFailure(e) == ~e.ok \/ e.op = "raise"
IsWelcome(e) == e.op = "reply" /\ e.txt = WelcomeText /\ e.btns = WelcomeButtons

Delivered == last.kind = "message" /\ last.before.next # <<>>

\* C1: once the next-step handlers armed in a conversation have been invoked
\* on a message, no next step remains armed in that conversation, whether
\* the handlers completed or ended in their except branch.
ThmC1 == Delivered => next[last.chat] = <<>>

\* A message was taken by an armed handler that ended in its except branch.
WitC1 ==
    /\ Delivered
    /\ \E i \in 1..Len(last.invs) : Count(last.invs[i].events, IsOops) = 1
    /\ next[last.chat] = <<>>

Armed2 == last.kind = "callback" /\ last.data \in ArmingTags
          /\ Count(AllEvents(last.invs), IsRegister) > 0

\* C2 as stated: a conversation has at most one armed next step; arming
\* again replaces the earlier handler, and a message is delivered to the
\* most recently armed handler only.
OrigC2 ==
    /\ \A c \in Chats : Len(next[c]) <= 1
    /\ Armed2 => next[last.chat] = <<NextStepOf(last.data)>>
    /\ Delivered => Len(last.invs) = 1

\* C2 amended: arming while next steps are armed adds the new handler after
\* the earlier ones, without error; a message of the conversation is
\* delivered to every armed handler, once each, in the order they were
\* armed, and afterwards none is armed.
ThmC2 ==
    /\ Armed2 => /\ next[last.chat] = Append(last.before.next, NextStepOf(last.data))
                  /\ Count(AllEvents(last.invs), IsFailure) = 0
    /\ Delivered => /\ HandlersOf(last.invs) = last.before.next
                     /\ next[last.chat] = <<>>

\* A message was delivered to two handlers armed one after the other.
WitC2 ==
    /\ Delivered
    /\ Len(last.before.next) = 2
    /\ Len(last.invs) = 2
    /\ last.invs[1].handler # last.invs[2].handler

\* C3: process_movie_request with exactly one search result sends the detail
\* card of that result and no selection menu; with two or more results it
\* sends exactly one menu message with one button per result, and neither
\* looks up nor sends a detail card.
ThmC3 ==
    \A i \in 1..Len(last.invs) :
        last.invs[i].handler = "process_movie_request" /\ last.res[1] = "list" =>
            LET evs == last.invs[i].events
                movies == last.res[2]
                menus == SelectSeq(evs, IsMenuSend)
                cards == SelectSeq(evs, IsDetails)
            IN  /\ Len(movies) = 1 =>
                     /\ Len(menus) = 0
                     /\ Len(cards) = 1
                     /\ cards[1].txt = movies[1].Title
                     /\ cards[1].btns = <<>>
                /\ Len(movies) >= 2 =>
                     /\ Len(menus) = 1
                     /\ Len(menus[1].btns) = Len(movies)
                     /\ \A j \in 1..Len(movies) : menus[1].btns[j].tag = movies[j].Title
                     /\ Len(cards) = 0
                     /\ Count(evs, IsDetailsCall) = 0

\* process_movie_request got two results and sent a menu of two buttons.
WitC3 ==
    \E i \in 1..Len(last.invs) :
        /\ last.invs[i].handler = "process_movie_request"
        /\ last.res[1] = "list"
        /\ Len(last.res[2]) = 2
        /\ Count(last.invs[i].events, IsMenuSend) = 1

TheUrl == CHOOSE u \in Urls : TRUE

CallbackOf(tag) == last.kind = "callback" /\ last.data = tag

\* C5: in every state cancel does what default does: the same finalize call
\* without a custom name, so that cancel sends the pending file under its
\* original name and only then clears it.
ThmC5 ==
    /\ \A c \in Chats :
          CallbackRuns([next |-> next[c], pend |-> pend[c]], "cancel")
            = CallbackRuns([next |-> next[c], pend |-> pend[c]], "default")
    /\ CallbackOf("cancel") /\ last.before.pend # NoPending =>
          LET evs == AllEvents(last.invs)
              orig == <<last.before.pend.base \o last.before.pend.ext>>
          IN  /\ evs[1].ok => DocNames(last.invs) = orig
              /\ pend[last.chat] = NoPending => DocNames(last.invs) = orig

\* cancel was pressed with an upload pending, and the file was sent.
WitC5 ==
    /\ CallbackOf("cancel")
    /\ last.before.pend # NoPending
    /\ DocNames(last.invs) = <<"file.zip">>
    /\ pend[last.chat] = NoPending

Unchanged == next[last.chat] = last.before.next /\ pend[last.chat] = last.before.pend

\* C6 as stated: in every state of the conversation a /start or /help
\* message gets exactly one reply with the welcome text and the five
\* buttons, and leaves the armed next steps and the pending upload unchanged.
OrigC6 ==
    last.kind = "message" /\ last.data \in Commands =>
        /\ Count(AllEvents(last.invs), IsWelcome) = 1
        /\ Unchanged

\* C6 amended: with no next step armed, /start or /help gets exactly one
\* reply with the welcome text and the five buttons and changes nothing;
\* with next steps armed the message is taken by the armed handlers as
\* their text, no welcome is sent and the next steps are used up.
ThmC6 ==
    last.kind = "message" /\ last.data \in Commands =>
        /\ last.before.next = <<>> =>
              /\ Count(AllEvents(last.invs), IsWelcome) = 1
              /\ Len(WelcomeButtons) = 5
              /\ HandlersOf(last.invs) = <<"send_welcome">>
              /\ Unchanged
        /\ last.before.next # <<>> =>
              /\ Count(AllEvents(last.invs), IsWelcome) = 0
              /\ HandlersOf(last.invs) = last.before.next
              /\ next[last.chat] = <<>>

\* /help arrived with an upload pending and nothing armed.
WitC6 ==
    /\ last.kind = "message"
    /\ last.data = "/help"
    /\ last.before.next = <<>>
    /\ last.before.pend # NoPending
    /\ Count(AllEvents(last.invs), IsWelcome) = 1

HandlerOfTag(tag) ==
    CASE tag = "movie_details" -> "process_movie_request"
      [] tag = "movie_ratings" -> "process_movie_rating_request"
      [] tag = "url_upload" -> "process_url_upload"
      [] tag = "rename" -> "process_rename"

IsSend(e) == e.op = "send" /\ e.what # "oops"

\* C7: a button press is dispatched on its tag alone.  Each of the eight
\* fixed tags runs its own handler and never the movie-details lookup, also
\* when a selection menu offered the tag as a movie title; any other tag is
\* a movie selection: at most one details lookup, for that tag, at most one
\* message, nothing armed and nothing sent as a file, and exactly one lookup
\* and one details message once the press has been acknowledged.
ThmC7 ==
    last.kind = "callback" =>
        LET tag == last.data
            evs == last.invs[1].events
            calls == SelectSeq(evs, IsAdapterCall)
            regs == SelectSeq(evs, IsRegister)
            docs == SelectSeq(evs, IsDoc)
        IN  /\ tag = "time" =>
                  calls = <<Call("get_current_time", "")>> /\ regs = <<>> /\ docs = <<>>
            /\ tag = "date" =>
                  calls = <<Call("get_current_date", "")>> /\ regs = <<>> /\ docs = <<>>
            /\ tag \in ArmingTags =>
                  /\ calls = <<>> /\ docs = <<>>
                  /\ \A i \in 1..Len(regs) : regs[i].what = HandlerOfTag(tag)
                  /\ Count(evs, IsFailure) = 0 => Len(regs) = 1
            /\ tag \in {"default", "cancel"} =>
                  /\ calls = <<>> /\ regs = <<>>
                  /\ last.before.pend # NoPending /\ evs[1].ok => Len(docs) = 1
            /\ tag \notin FixedTags =>
                  /\ regs = <<>> /\ docs = <<>> /\ Unchanged
                  /\ Len(calls) <= 1
                  /\ \A i \in 1..Len(calls) : calls[i] = Call("get_movie_details", tag)
                  /\ Count(evs, IsSend) <= 1
                  /\ evs[1].ok => Len(calls) = 1 /\ Count(evs, IsDetails) = 1
            /\ tag \in collide[last.chat] => Count(evs, IsDetailsCall) = 0

\* A selection menu offered the title "time"; the button ran the time handler.
WitC7 ==
    /\ CallbackOf("time")
    /\ "time" \in collide[last.chat]
    /\ last.invs[1].events[1] = Call("get_current_time", "")
    /\ Count(last.invs[1].events, IsDetailsCall) = 0

\* C8 as stated: when a step of a handler raises, the handler sends exactly
\* one generic message, does not let the exception out, and leaves the
\* state of the conversation as it was when the exception was raised.
OrigC8 ==
    \A i \in 1..Len(last.invs) :
        LET evs == last.invs[i].events IN
        (\E j \in 1..Len(evs) : IsFailure(evs[j]) /\ ~IsOops(evs[j])) =>
            /\ Count(evs, IsOops) = 1
            /\ ~last.invs[i].raised
            /\ last.kind = "callback" => Unchanged

IsMessage(e) == e.op \in {"send", "reply"}
IsSearchCall(e) == e.op = "call" /\ e.what = "search_movies"

\* The invocations of the action handlers in the last update: the two movie
\* next-step handlers and the movie-selection branch of callback_query.
IsAction(inv) ==
    \/ inv.handler \in {"process_movie_request", "process_movie_rating_request"}
    \/ inv.handler = "callback_query" /\ last.data \notin FixedTags

\* C12 as stated: every invocation of an action handler makes exactly one
\* adapter call and sends exactly one message, on every path.
OrigC12 ==
    \A i \in 1..Len(last.invs) :
        IsAction(last.invs[i]) =>
            /\ Count(last.invs[i].events, IsAdapterCall) = 1
            /\ Count(last.invs[i].events, IsMessage) = 1

\* C12 amended: process_movie_request makes exactly one search call, and one
\* more adapter call, the details lookup, exactly when the search returned
\* exactly one result; process_movie_rating_request makes exactly one
\* adapter call; the movie-selection callback makes exactly one once the
\* press has been acknowledged and none otherwise.  An invocation in which
\* no call raises sends exactly one message; one in which a call raises
\* sends at most one message besides the generic failure message.
ThmC12 ==
    \A i \in 1..Len(last.invs) :
        LET inv == last.invs[i]
            evs == inv.events
            single == last.res[1] = "list" /\ Len(last.res[2]) = 1
        IN  IsAction(inv) =>
              /\ inv.handler = "process_movie_request" =>
                    /\ Count(evs, IsSearchCall) = 1
                    /\ Count(evs, IsDetailsCall) = (IF single THEN 1 ELSE 0)
                    /\ Count(evs, IsAdapterCall) = (IF single THEN 2 ELSE 1)
              /\ inv.handler = "process_movie_rating_request" =>
                    Count(evs, IsAdapterCall) = 1
              /\ inv.handler = "callback_query" =>
                    Count(evs, IsAdapterCall) = (IF evs[1].ok THEN 1 ELSE 0)
              /\ Count(evs, IsSend) <= 1
              /\ Count(evs, IsOops) <= 1
              /\ Count(evs, IsFailure) = 0 =>
                    Count(evs, IsMessage) = 1 /\ Count(evs, IsOops) = 0

\* process_movie_request got one result: a search, a details lookup and one
\* message, with no call raising.
WitC12 ==
    \E i \in 1..Len(last.invs) :
        /\ last.invs[i].handler = "process_movie_request"
        /\ last.res[1] = "list" /\ Len(last.res[2]) = 1
        /\ Count(last.invs[i].events, IsFailure) = 0
        /\ Count(last.invs[i].events, IsAdapterCall) = 2
        /\ Count(last.invs[i].events, IsMessage) = 1

\* The menu of a search result: one button per movie, in result order,
\* labelled "<title> (<year>)" and tagged with the title.
MenuOf(movies) ==
    [i \in 1..Len(movies) |->
        [label |-> movies[i].Title \o " (" \o movies[i].Year \o ")", tag |-> movies[i].Title]]

\* The last update is a press of a button that a selection menu of the
\* chat offered, handled without a call raising.
PressedOffered ==
    /\ last.kind = "callback"
    /\ last.data \in Titles
    /\ last.data \in FixedTags => last.data \in collide[last.chat]
    /\ Count(last.invs[1].events, IsFailure) = 0

\* C18 as stated: for a search with n >= 2 results the selection menu has
\* exactly n buttons in result order, the i-th labelled "<title_i>
\* (<year_i>)" and tagged title_i; pressing the i-th button sends the detail
\* card looked up by title_i.
OrigC18 ==
    /\ \A i \in 1..Len(last.invs) :
          /\ last.invs[i].handler = "process_movie_request"
          /\ last.res[1] = "list"
          /\ Len(last.res[2]) >= 2
          => LET menus == SelectSeq(last.invs[i].events, IsMenuSend)
             IN  Len(menus) = 1 /\ menus[1].btns = MenuOf(last.res[2])
    /\ PressedOffered =>
          LET evs == last.invs[1].events
              cards == SelectSeq(evs, IsDetails)
          IN  /\ SelectSeq(evs, IsAdapterCall) = <<Call("get_movie_details", last.data)>>
              /\ Len(cards) = 1
              /\ cards[1].txt = last.data

\* C19, checked under SpecChats: an update of one conversation (arming a
\* next step, creating or sending a pending upload, a message) leaves the
\* armed next steps and the pending upload of every other conversation as
\* they were, and a message is delivered to the handlers armed in its own
\* conversation and to no others: with nothing armed there, to none.
ThmC19 ==
    /\ [][\A d \in Chats \ {last'.chat} : next'[d] = next[d] /\ pend'[d] = pend[d]]_vars
    /\ [](last.kind = "message" =>
            /\ HandlersOf(last.invs) = last.before.next
            /\ last.before.next = <<>> /\ last.data \notin Commands => last.invs = <<>>)

\* B sent a message while A had a next step armed and an upload pending and
\* B had neither: no handler ran, and A's state stands.
WitC19 ==
    /\ last.kind = "message" /\ last.chat = "B"
    /\ last.before = [next |-> <<>>, pend |-> NoPending]
    /\ last.invs = <<>>
    /\ next["A"] # <<>> /\ pend["A"] # NoPending
    /\ next["B"] = <<>> /\ pend["B"] = NoPending

ArmingPress == last.kind = "callback" /\ last.data \in ArmingTags

\* C20: for each arming tag the press is acknowledged first, the prompt is
\* sent second and the next step is armed last: when the acknowledgement or
\* the prompt raises, no next step is armed and the state of the
\* conversation is as before the press; a next step is armed only after its
\* prompt has been sent, and is armed when neither call raised.
ThmC20 ==
    ArmingPress =>
        LET evs == last.invs[1].events
            prompt == Send("prompt", PromptOf(last.data), <<>>)
        IN  /\ evs[1].op = "ack"
            /\ evs[1].ok => Len(evs) >= 2 /\ [evs[2] EXCEPT !.ok = TRUE] = prompt
            /\ \A k \in 1..Len(evs) :
                  IsRegister(evs[k]) =>
                      /\ k = 3
                      /\ evs[1].ok
                      /\ evs[2] = prompt
                      /\ evs[3] = Register(NextStepOf(last.data))
            /\ Count(evs, IsFailure) > 0 => Count(evs, IsRegister) = 0 /\ Unchanged
            /\ Count(evs, IsFailure) = 0 =>
                  /\ evs = <<Ack(""), prompt, Register(NextStepOf(last.data))>>
                  /\ next[last.chat] = Append(last.before.next, NextStepOf(last.data))
                  /\ pend[last.chat] = last.before.pend

\* The prompt of an arming press raised after the acknowledgement: nothing
\* was armed and the state stands.
WitC20 ==
    /\ ArmingPress
    /\ Len(last.invs[1].events) >= 2
    /\ last.invs[1].events[1] = Ack("")
    /\ last.invs[1].events[2].op = "send" /\ last.invs[1].events[2].what = "prompt"
    /\ ~last.invs[1].events[2].ok
    /\ Count(last.invs[1].events, IsRegister) = 0
    /\ Unchanged

----------------------------------------------------------------------------
(* Properties of main.py, checked under SpecBlog *)

IsApi(e) == e.op = "api"
IsWrite(e) == e.op = "api" /\ e.what \in {"update", "insert"}
IsUpdate(e) == e.op = "api" /\ e.what = "update"
IsInsert(e) == e.op = "api" /\ e.what = "insert"
IsReply(e) == e.op = "reply"
IsUrlReply(e) == e.op = "reply" /\ e.what \in {"updated", "created"}
IsFailedApi(e) == e.op = "api" /\ ~e.ok

Posted == blast.handler = "post_to_blogger"

\* C9: post_to_blogger calls the Blogger API only for a user whose context
\* holds a service handle, and a handle is in a user's context only after a
\* successful /authenticate of that user; without a handle the invocation
\* consists of the one reply "You need to authenticate first".
ThmC9 ==
    /\ \A u \in Users : svc[u] => authed[u]
    /\ Posted =>
          /\ Count(blast.events, IsApi) > 0 => blast.service /\ authed[blast.user]
          /\ ~blast.service =>
                /\ blast.events = <<BReply("need_auth", 0)>>
                /\ posts = blast.before

\* A user who never authenticated posts after another user has authenticated.
WitC9 ==
    /\ Posted
    /\ ~authed[blast.user]
    /\ \E v \in Users : authed[v]
    /\ Drop6(blast.text) # <<>>
    /\ blast.events = <<BReply("need_auth", 0)>>

PostedBody == Posted /\ blast.service /\ Drop6(blast.text) # <<>>

DraftIn(ps) == \E i \in 1..Len(ps) : ps[i].title = DraftTitle

\* The first post of ps with the title "Draft Post".
FirstDraftOf(ps) ==
    CHOOSE i \in 1..Len(ps) :
        ps[i].title = DraftTitle /\ \A j \in 1..(i - 1) : ps[j].title # DraftTitle

\* What the two write paths of an invocation look like.
WritePaths ==
    LET evs == blast.events
        body == Drop6(blast.text)
        updates == SelectSeq(evs, IsUpdate)
        inserts == SelectSeq(evs, IsInsert)
    IN  /\ DraftIn(blast.before) =>
              /\ inserts = <<>>
              /\ \A k \in 1..Len(updates) :
                    /\ updates[k].id = blast.before[FirstDraftOf(blast.before)].id
                    /\ updates[k].body = body
        /\ ~DraftIn(blast.before) =>
              /\ updates = <<>>
              /\ \A k \in 1..Len(inserts) : inserts[k].body = body
        /\ Count(evs, IsFailedApi) = 0 =>
              /\ Count(evs, IsReply) = 1
              /\ Count(evs, IsUrlReply) = 1
              /\ \E k \in 1..Len(evs) : \E w \in 1..Len(evs) :
                    IsUrlReply(evs[k]) /\ IsWrite(evs[w]) /\ evs[k].id = evs[w].id
              /\ IF DraftIn(blast.before)
                 THEN posts = [blast.before EXCEPT ![FirstDraftOf(blast.before)].content = body]
                 ELSE /\ Len(posts) = Len(blast.before) + 1
                      /\ posts[1].content = body

IsNoContent(e) == e.op = "reply" /\ e.what = "no_content"

\* An authenticated user sent a non-empty text that is not a command.
PlainText == Posted /\ blast.service /\ ~IsCommand(blast.text) /\ blast.text # <<>>

\* C11 as stated: for an authenticated user a non-command text message is
\* the post body: the content written to Blogger is the full text of the
\* message, and a non-empty message is never answered with "Please provide
\* the content for the post".
OrigC11 ==
    PlainText =>
        /\ Count(blast.events, IsNoContent) = 0
        /\ \A k \in 1..Len(blast.events) :
              IsWrite(blast.events[k]) => blast.events[k].body = blast.text

\* The posts of ps that post_to_blogger inserted.
CreatedIn(ps) == {i \in 1..Len(ps) : ps[i].title = NewTitle}

Succeeded == PostedBody /\ Count(blast.events, IsFailedApi) = 0

\* C13 as stated: once a successful /post has created a draft, the next
\* successful /post finds that draft by its title and updates it; hence on a
\* blog that had no "Draft Post" the successful invocations insert at most
\* one post.
OrigC13 ==
    /\ Succeeded /\ CreatedIn(blast.before) # {} =>
          /\ Count(blast.events, IsInsert) = 0
          /\ \E i \in CreatedIn(blast.before) :
                \E k \in 1..Len(blast.events) :
                    IsUpdate(blast.events[k]) /\ blast.events[k].id = blast.before[i].id
    /\ ~DraftIn(posts) => Cardinality(CreatedIn(posts)) <= 1

IsRefresh(e) == e.op = "refresh"
IsFlow(e) == e.op = "flow"
IsDump(e) == e.op = "dump"
IsBuild(e) == e.op = "build"

\* C14 as stated: authenticate_google_account with a valid stored credential
\* runs neither the refresh nor the interactive flow and writes nothing to
\* disk; with an expired credential that has a refresh token it attempts the
\* refresh exactly once and does not run the interactive flow; in every
\* other case it runs the interactive flow.  After a refresh or an
\* interactive flow the credential is persisted before the service handle is
\* built.
OrigC14 ==
    blast.handler = "authenticate" =>
        LET evs == blast.events IN
        /\ blast.cred = "valid" =>
              Count(evs, IsRefresh) = 0 /\ Count(evs, IsFlow) = 0 /\ Count(evs, IsDump) = 0
        /\ blast.cred = "expired_rt" =>
              Count(evs, IsRefresh) = 1 /\ Count(evs, IsFlow) = 0
        /\ blast.cred \notin {"valid", "expired_rt"} => Count(evs, IsFlow) = 1
        /\ \A k \in 1..Len(evs) :
              (IsRefresh(evs[k]) \/ IsFlow(evs[k])) /\ evs[k].ok =>
                  /\ \E d \in (k + 1)..Len(evs) : IsDump(evs[d])
                  /\ \A b \in 1..Len(evs) :
                        IsBuild(evs[b]) => \E d \in (k + 1)..(b - 1) : IsDump(evs[d])

IsErrorReply(e) == e.op = "reply" /\ e.what \in {"error", "error_handler"}

\* C15: when a Blogger API call of post_to_blogger fails, the invocation
\* sends exactly one reply, which carries the error, makes no API call after
\* the failed one (no retry, no insert after a failed update), sends no
\* success reply and leaves the blog as it was.
ThmC15 ==
    Posted =>
        \A k \in 1..Len(blast.events) :
            IsFailedApi(blast.events[k]) =>
                LET evs == blast.events IN
                /\ Count(evs, IsReply) = 1
                /\ Count(evs, IsErrorReply) = 1
                /\ Count(evs, IsUrlReply) = 0
                /\ \A j \in (k + 1)..Len(evs) : ~IsApi(evs[j])
                /\ posts = blast.before

\* The update of the draft failed: one error reply, no insert.
WitC15 ==
    /\ Posted
    /\ \E k \in 1..Len(blast.events) :
          /\ IsFailedApi(blast.events[k])
          /\ blast.events[k].what = "update"
          /\ Len(blast.events) = k + 1
          /\ IsErrorReply(blast.events[k + 1])
    /\ Count(blast.events, IsInsert) = 0

----------------------------------------------------------------------------
(* Properties of the threads of the entry points, checked under SpecThreads *)

NextStepHandlers == {"process_movie_request", "process_movie_rating_request",
                     "process_url_upload", "process_rename"}

\* C16 as stated: the updates of one conversation are processed one at a
\* time: no two handler calls of the same conversation are in progress at
\* once; in particular a next-step handler is never in progress together
\* with a button press of the same conversation that arms or finalizes.
OrigC16 ==
    \A w1 \in Workers : \A w2 \in Workers \ {w1} :
        Busy(w1) /\ Busy(w2) =>
            /\ work[w1].chat # work[w2].chat
            /\ (/\ work[w1].handler \in NextStepHandlers
                /\ work[w2].handler = "callback_query"
                /\ work[w2].data \in ArmingTags \cup {"default", "cancel"})
               => work[w1].chat # work[w2].chat

\* C17 as stated, for a fair event loop: in the combined entry point the
\* /upload handler of the client can run while the long-poll loop is
\* running, so an /upload message that waits while the loop is running is
\* taken up by upload_file while the loop is still running, unless polling
\* ends first.
OrigC17 ==
    (main.entry = "utils.py" /\ Polling /\ upl.waiting > 0)
        ~> (~Polling \/ upl.pc = "started")

====
